---------------------------- MODULE Spec2Model ----------------------------
(***************************************************************************)
(* Order lifecycle and realtime synchronisation of the anicafe-menu point  *)
(* of sale (src/src/App.tsx): the cashier's Order Builder, the Order       *)
(* Submission Protocol, the live views and the completion/undo handlers,   *)
(* over a document store with asynchronous writes and snapshot listeners.  *)
(***************************************************************************)
EXTENDS Integers, Sequences, FiniteSets, Bags, TLC

(***************************************************************************)
(* Bounds of the model.                                                    *)
(***************************************************************************)
MaxQty == 2          \* largest quantity typed into an item's NumberInput
MaxDiscount == 2     \* largest discount typed into the form
MaxOrders == 2       \* orders submitted in a run of the kitchen's specification
MaxSharedOrders == 1 \* orders submitted in a run of the other specifications
MaxInflight == 2     \* store requests the operators have outstanding at once

\* form.initialValues.number is null; the model writes null as -1
NoNumber == -1

Operators == {"op1", "op2"}    \* browsers running the application
Numbers == {NoNumber, 0, 1}    \* values of the Order Number input
NotesValues == {"", "no ice"}  \* values of the Notes input

(***************************************************************************)
(* The catalog: the "menu" collection ordered by categoryName, as the      *)
(* snapshot listener of App stores it.  Prices are whole currency units.   *)
(***************************************************************************)
menu ==
  << [categoryName |-> "Food",
      items |-> << [itemName |-> "Burger", price |-> 10],
                   [itemName |-> "Fries", price |-> 3] >>],
     [categoryName |-> "Specialty",
      items |-> << [itemName |-> "CustomCake", price |-> 5] >>] >>

Range(s) == {s[k] : k \in DOMAIN s}

\* Object.fromEntries over a sequence of <<key, value>> pairs (keys distinct)
FromEntries(entries) ==
  [k \in {e[1] : e \in Range(entries)} |->
     (CHOOSE e \in Range(entries) : e[1] = k)[2]]

\* Object.entries of the form's items object: insertion order is menu order
CategoryEntries(items) ==
  [k \in 1..Len(menu) |-> <<menu[k].categoryName, items[menu[k].categoryName]>>]

ItemEntries(categoryName, category) ==
  LET cat == CHOOSE m \in Range(menu) : m.categoryName = categoryName
  IN  [k \in 1..Len(cat.items) |->
         <<cat.items[k].itemName, category[cat.items[k].itemName]>>]

\* form.initialValues.items: every catalog item at quantity 0
InitialItems ==
  FromEntries([k \in 1..Len(menu) |->
     <<menu[k].categoryName,
       FromEntries([j \in 1..Len(menu[k].items) |->
          <<menu[k].items[j].itemName, 0>>])>>])

initialValues ==
  [number |-> NoNumber, notes |-> "", discount |-> 0, zone |-> "Undecided",
   items |-> InitialItems]

\* the catalog after the out-of-scope editing feature has repriced an item
RepricedMenu ==
  [menu EXCEPT ![1].items[1].price = 12]

\* the catalogs the menu listener of App delivers
Menus == {menu, RepricedMenu}

\* the expression CashierPage computes itemPriceMap with, at every render
PriceMapOf(m) ==
  FromEntries([k \in 1..Len(m) |->
     <<m[k].categoryName,
       FromEntries([j \in 1..Len(m[k].items) |->
          <<m[k].items[j].itemName, m[k].items[j].price>>])>>])

\* itemPriceMap of the cashier's last render: the prices of the menu state
\* of App, which the menu listener replaces whenever the catalog changes
VARIABLE itemPriceMap

\* Array.prototype.reduce, for the two reducers of calculateTotal
RECURSIVE SumItems(_, _, _)
SumItems(entries, categoryName, sum) ==
  IF entries = << >> THEN sum
  ELSE SumItems(Tail(entries), categoryName,
                sum + itemPriceMap[categoryName][Head(entries)[1]] * Head(entries)[2])

RECURSIVE SumCategories(_, _)
SumCategories(entries, sum) ==
  IF entries = << >> THEN sum
  ELSE SumCategories(Tail(entries),
         sum + SumItems(ItemEntries(Head(entries)[1], Head(entries)[2]),
                        Head(entries)[1], 0))

calculateTotal(categoires) == SumCategories(CategoryEntries(categoires), 0)

\* faulty variant of the inner reducer: the quantity is never tested
ReduceItemsUnfiltered(entries, items) ==
  items \o [k \in 1..Len(entries) |-> <<entries[k][1], [quantity |-> entries[k][2]]>>]

\* the inner reducer of makeOrder: keeps the items whose quantity is > 0
RECURSIVE ReduceItems(_, _)
ReduceItems(entries, items) ==
  IF entries = << >> THEN items
  ELSE ReduceItems(Tail(entries),
         IF Head(entries)[2] > 0
           THEN Append(items, <<Head(entries)[1], [quantity |-> Head(entries)[2]]>>)
           ELSE items)

\* faulty variant of the outer reducer: a category left without an item is
\* kept
ReduceCategoriesUnfiltered(entries, categories) ==
  categories \o
    [k \in 1..Len(entries) |->
       <<entries[k][1],
         [done |-> FALSE,
          items |-> FromEntries(ReduceItems(ItemEntries(entries[k][1], entries[k][2]),
                                            << >>))]>>]

\* the outer reducer of makeOrder: keeps the categories left with an item
RECURSIVE ReduceCategories(_, _)
ReduceCategories(entries, categories) ==
  IF entries = << >> THEN categories
  ELSE LET newCategory ==
             [done |-> FALSE,
              items |-> FromEntries(
                 ReduceItems(ItemEntries(Head(entries)[1], Head(entries)[2]), << >>))]
       IN  ReduceCategories(Tail(entries),
             IF Cardinality(DOMAIN newCategory.items) > 0
               THEN Append(categories, <<Head(entries)[1], newCategory>>)
               ELSE categories)

makeOrder(formValues, tot) ==
  [number |-> IF formValues.number = NoNumber THEN 0 ELSE formValues.number,
   price |-> tot,
   discount |-> formValues.discount,
   notes |-> formValues.notes,
   completed |-> FALSE,
   zone |-> formValues.zone,
   categories |-> FromEntries(ReduceCategories(CategoryEntries(formValues.items), << >>))]


(***************************************************************************)
(* State.                                                                  *)
(*   form, total, modal   the CashierPage of the cashier's browser: the    *)
(*                        form values, the total state and the confirm     *)
(*                        modal (<< >> closed, <<newOrder>> open)          *)
(*   errors               the fields of the form that show a validation    *)
(*                        error                                            *)
(*   orders, specialty    the two collections of the store, by document id *)
(*   clock                the store's clock, the source of serverTimestamp *)
(*   inflight             the bag of store requests issued and not yet     *)
(*                        settled                                          *)
(*   tab, list            per browser: the mounted Tabs.Panel and the      *)
(*                        local list (document ids) of its page            *)
(*   subscriptions        per browser: the pages with a live onSnapshot    *)
(*                        listener, each with whether its first snapshot   *)
(*                        is still to be delivered                         *)
(*   loading, analytics   per browser: the loading and analytics states of *)
(*                        AllOrdersPage (as useState initialises them      *)
(*                        while the page is not mounted)                   *)
(*   notifications        per browser: the notifications shown, each with  *)
(*                        whether its Undo button has been pressed         *)
(*   lapsed               history: the orders of which an Order-level      *)
(*                        notification closed with Undo never pressed      *)
(*   rejected             history: <<"create" or "done", id>> of the       *)
(*                        Specialty records of which the store rejected    *)
(*                        the create or a write of a complete/undo         *)
(*   overlapped           history: the Specialty records of which a        *)
(*                        complete/undo was issued while another one of    *)
(*                        the same record still had a write in flight      *)
(***************************************************************************)
VARIABLES form, total, modal, errors, orders, specialty, clock, inflight,
          tab, list, subscriptions, loading, analytics,
          notifications, lapsed, rejected, overlapped

cashierVars == <<form, total, modal, errors, itemPriceMap>>
storeVars == <<orders, specialty, clock>>
viewVars == <<tab, list, subscriptions, loading, analytics>>
historyVars == <<lapsed, rejected, overlapped>>
vars == <<form, total, modal, errors, itemPriceMap, orders, specialty, clock, inflight,
          tab, list, subscriptions, loading, analytics,
          notifications, lapsed, rejected, overlapped>>

OrderIds == 1..MaxOrders
Inflight == BagToSet(inflight)
Issue(r) == inflight (+) SetToBag({r})
Settle(r) == inflight (-) SetToBag({r})

\* the number of requests of the given kinds still to be settled
CountKinds(kinds) ==
  BagCardinality([r \in {q \in Inflight : q.kind \in kinds} |-> inflight[r]])
PendingOrders == CountKinds({"addDoc"})

Init ==
  /\ form = initialValues
  /\ total = 0
  /\ modal = << >>
  /\ errors = {}
  /\ itemPriceMap = PriceMapOf(menu)
  /\ orders = << >>
  /\ specialty = << >>
  /\ clock = 0
  /\ inflight = EmptyBag
  /\ tab = [op \in Operators |-> "cashier"]
  /\ list = [op \in Operators |-> << >>]
  /\ subscriptions = [op \in Operators |-> << >>]
  /\ loading = [op \in Operators |-> TRUE]
  /\ analytics = [op \in Operators |-> << >>]
  /\ notifications = [op \in Operators |-> << >>]
  /\ lapsed = {}
  /\ rejected = {}
  /\ overlapped = {}

(***************************************************************************)
(* Order Builder (CashierPage).                                            *)
(***************************************************************************)
\* faulty variant of onValuesChange: the discount is not subtracted
onValuesChangeNoDiscount(values) == total' = calculateTotal(values.items)

\* useForm's onValuesChange, run by every change of a form value
onValuesChange(values) == total' = calculateTotal(values.items) - values.discount

\* an item's NumberInput (or its + and - buttons) sets a quantity; a change
\* of a field clears the error the field shows
ChangeQuantity(categoryName, itemName, quantity) ==
  /\ modal = << >>
  /\ form.items[categoryName][itemName] # quantity
  /\ form' = [form EXCEPT !.items[categoryName][itemName] = quantity]
  /\ onValuesChange(form')
  /\ UNCHANGED <<modal, errors, itemPriceMap, storeVars, inflight, viewVars, notifications, historyVars>>

ChangeDiscount(discount) ==
  /\ modal = << >>
  /\ form.discount # discount
  /\ form' = [form EXCEPT !.discount = discount]
  /\ onValuesChange(form')
  /\ errors' = errors \ {"discount"}
  /\ UNCHANGED <<modal, itemPriceMap, storeVars, inflight, viewVars, notifications, historyVars>>

ChangeNumber(number) ==
  /\ modal = << >>
  /\ form.number # number
  /\ form' = [form EXCEPT !.number = number]
  /\ onValuesChange(form')
  /\ errors' = errors \ {"number"}
  /\ UNCHANGED <<modal, itemPriceMap, storeVars, inflight, viewVars, notifications, historyVars>>

\* faulty variant of the validate rules: the discount rule is missing
validateNumberOnly(values, tot) ==
  values.number # NoNumber /\ values.number # 0 /\ values.number > 0

\* the validate rules of useForm: TRUE when neither rule reports an error
validate(values, tot) ==
  /\ values.number # NoNumber /\ values.number # 0 /\ values.number > 0
  /\ tot >= 0

\* the fields the validate rules report an error for
validationErrors(values, tot) ==
  (IF values.number # NoNumber /\ values.number # 0 /\ values.number > 0
     THEN {} ELSE {"number"})
  \cup (IF tot >= 0 THEN {} ELSE {"discount"})

\* form.onSubmit when validation reports errors: they are shown at their
\* fields and handleSubmit is not called
onSubmitInvalid ==
  /\ modal = << >>
  /\ ~validate(form, total)
  /\ errors' = validationErrors(form, total)
  /\ UNCHANGED <<form, total, modal, itemPriceMap, storeVars, inflight, viewVars, notifications,
                 historyVars>>

\* faulty variant of the modal's onCancel: the order is submitted all the same
onCancelSubmitting ==
  /\ modal # << >>
  /\ Cardinality(DOMAIN orders) + PendingOrders < MaxSharedOrders
  /\ inflight' = Issue([kind |-> "addDoc",
                        doc |-> modal[1] @@ [specialtyOnly |-> FALSE]])
  /\ modal' = << >>
  /\ UNCHANGED <<form, total, errors, itemPriceMap, storeVars, viewVars, notifications,
                 historyVars>>

\* form.onSubmit(handleSubmit): validation, then the confirm modal
handleSubmit ==
  /\ modal = << >>
  /\ validate(form, total)
  /\ modal' = <<makeOrder(form, total)>>
  /\ errors' = {}
  /\ UNCHANGED <<form, total, itemPriceMap, storeVars, inflight, viewVars, notifications, historyVars>>

onCancel ==
  /\ modal # << >>
  /\ modal' = << >>
  /\ UNCHANGED <<form, total, errors, itemPriceMap, storeVars, inflight, viewVars, notifications, historyVars>>

(***************************************************************************)
(* Order Submission Protocol (App.submitOrder).                            *)
(***************************************************************************)
\* faulty variant of the specialtyOnly flag: the number of categories is
\* not tested
specialtyOnlyOfAnySpecialty(order) == "Specialty" \in DOMAIN order.categories

specialtyOnlyOf(order) ==
  Cardinality(DOMAIN order.categories) = 1 /\ "Specialty" \in DOMAIN order.categories

\* the addDoc request of submitOrder; the timestamp is set by the store
submitOrder(order) ==
  inflight' = Issue([kind |-> "addDoc",
                     doc |-> [number |-> order.number, price |-> order.price,
                              discount |-> order.discount, notes |-> order.notes,
                              completed |-> order.completed, zone |-> order.zone,
                              categories |-> order.categories,
                              specialtyOnly |-> specialtyOnlyOf(order)]])

\* the modal's onConfirm: submitOrder(newOrder), then form.reset()
onConfirm ==
  /\ modal # << >>
  /\ Cardinality(DOMAIN orders) + PendingOrders < MaxSharedOrders
  /\ submitOrder(modal[1])
  /\ form' = initialValues
  /\ onValuesChange(form')
  /\ errors' = {}
  /\ modal' = << >>
  /\ UNCHANGED <<itemPriceMap, storeVars, viewVars, notifications, historyVars>>

\* faulty variant of the Specialty record: the notes are not copied
specialtyOfWithoutNotes(order) ==
  [number |-> order.number, notes |-> "", done |-> FALSE,
   items |-> order.categories["Specialty"].items]

\* the Specialty record the continuation of addDoc builds from the order
specialtyOf(order) ==
  [number |-> order.number, notes |-> order.notes, done |-> FALSE,
   items |-> order.categories["Specialty"].items]

\* faulty variant of addDoc being applied: the continuation issues setDoc
\* under another id than the one the store assigned
AddDocAppliedOtherId(r) ==
  /\ r \in Inflight /\ r.kind = "addDoc"
  /\ LET id == Cardinality(DOMAIN orders) + 1
     IN  /\ clock' = clock + 1
         /\ orders' = Append(orders, r.doc @@ [timestamp |-> clock'])
         /\ inflight' =
              IF "Specialty" \in DOMAIN r.doc.categories
                THEN Settle(r) (+) SetToBag({[kind |-> "setDoc", id |-> id + 1,
                                              doc |-> specialtyOf(r.doc)]})
                ELSE Settle(r)
  /\ UNCHANGED <<cashierVars, specialty, viewVars, notifications, historyVars>>

\* addDoc is applied: the store assigns the id and the timestamp, and the
\* continuation issues setDoc for an order with a "Specialty" category
AddDocApplied(r) ==
  /\ r \in Inflight /\ r.kind = "addDoc"
  /\ LET id == Cardinality(DOMAIN orders) + 1
     IN  /\ clock' = clock + 1
         /\ orders' = Append(orders, r.doc @@ [timestamp |-> clock'])
         /\ inflight' =
              IF "Specialty" \in DOMAIN r.doc.categories
                THEN Settle(r) (+) SetToBag({[kind |-> "setDoc", id |-> id,
                                              doc |-> specialtyOf(r.doc)]})
                ELSE Settle(r)
  /\ UNCHANGED <<cashierVars, specialty, viewVars, notifications, historyVars>>

\* faulty variant of setDoc being applied: the record is not written
SetDocAppliedNowhere(r) ==
  /\ r \in Inflight /\ r.kind = "setDoc"
  /\ inflight' = Settle(r)
  /\ UNCHANGED <<cashierVars, storeVars, viewVars, notifications, historyVars>>

\* setDoc is applied: the Specialty record is written under the order's id
SetDocApplied(r) ==
  /\ r \in Inflight /\ r.kind = "setDoc"
  /\ clock' = clock + 1
  /\ specialty' = (r.id :> (r.doc @@ [timestamp |-> clock'])) @@ specialty
  /\ inflight' = Settle(r)
  /\ UNCHANGED <<cashierVars, orders, viewVars, notifications, historyVars>>

\* what the history keeps of a rejected write of request r
Rejection(r) ==
  IF r.kind = "setDoc" THEN {<<"create", r.id>>}
  ELSE IF r.kind \in {"completeSpecialtyOrder", "undoSpecialtyOrder"}
       THEN {<<"done", r.id>>}
       ELSE {}

\* faulty variant of a rejected create: the request is issued again
CreateFailedRetried(r) ==
  /\ r \in Inflight /\ r.kind \in {"addDoc", "setDoc"}
  /\ inflight' = Settle(r) (+) SetToBag({r})
  /\ rejected' = rejected \cup Rejection(r)
  /\ UNCHANGED <<cashierVars, storeVars, viewVars, notifications, lapsed, overlapped>>

\* a create request is rejected by the store: nothing is written, and the
\* rejection is handled nowhere
CreateFailed(r) ==
  /\ r \in Inflight /\ r.kind \in {"addDoc", "setDoc"}
  /\ inflight' = Settle(r)
  /\ rejected' = rejected \cup Rejection(r)
  /\ UNCHANGED <<cashierVars, storeVars, viewVars, notifications, lapsed, overlapped>>


\* a confirmed order arrives from a cashier: submitOrder on an order built
\* by makeOrder from one of the sample selections, with the total that
\* onValuesChange computed for it
SampleForms ==
  { [initialValues EXCEPT !.number = 1],
    [initialValues EXCEPT !.number = 2, !.items["Specialty"]["CustomCake"] = 1],
    [initialValues EXCEPT !.number = 2, !.notes = "no ice",
                          !.items["Food"]["Fries"] = 1,
                          !.items["Specialty"]["CustomCake"] = 2] }

OrderConfirmed(formValues, cap) ==
  /\ Cardinality(DOMAIN orders) + PendingOrders < cap
  /\ submitOrder(makeOrder(formValues,
                           calculateTotal(formValues.items) - formValues.discount))
  /\ UNCHANGED <<cashierVars, storeVars, viewVars, notifications, historyVars>>

(***************************************************************************)
(* Live View Projections.                                                  *)
(***************************************************************************)
Tabs == {"cashier", "activeOrders", "server", "specialty", "allOrders"}

\* faulty variant of orderBy("timestamp"): the documents are ordered by
\* their number field
RECURSIVE OrderByNumber(_, _)
OrderByNumber(coll, S) ==
  IF S = {} THEN << >>
  ELSE LET first == CHOOSE i \in S : \A j \in S : coll[i].number <= coll[j].number
       IN  <<first>> \o OrderByNumber(coll, S \ {first})

\* orderBy("timestamp"): the ids of a collection's documents in S, ascending
RECURSIVE OrderBy(_, _)
OrderBy(coll, S) ==
  IF S = {} THEN << >>
  ELSE LET first == CHOOSE i \in S : \A j \in S : coll[i].timestamp <= coll[j].timestamp
       IN  <<first>> \o OrderBy(coll, S \ {first})

\* faulty variant of the query of OrderPage and of ServerPage: the filter on
\* specialtyOnly is missing
ActiveOrdersQueryOfCompletedOnly ==
  OrderBy(orders, {i \in DOMAIN orders : orders[i].completed = FALSE})

\* the query of OrderPage and of ServerPage
ActiveOrdersQuery ==
  OrderBy(orders, {i \in DOMAIN orders :
                     orders[i].completed = FALSE /\ orders[i].specialtyOnly = FALSE})

\* the query of SpecialtyPage
SpecialtyQuery ==
  OrderBy(specialty, {i \in DOMAIN specialty : specialty[i].done = FALSE})

\* the query of AllOrdersPage
AllOrdersQuery == OrderBy(orders, DOMAIN orders)

\* faulty variant of the pages' queries: the Servers page lists the
\* completed Orders too
QueryOfServerListingAll(t) ==
  CASE t = "activeOrders" -> ActiveOrdersQuery
    [] t = "server" -> AllOrdersQuery
    [] t = "specialty" -> SpecialtyQuery
    [] t = "allOrders" -> AllOrdersQuery
    [] OTHER -> << >>

QueryOf(t) ==
  CASE t = "activeOrders" -> ActiveOrdersQuery
    [] t = "server" -> ActiveOrdersQuery
    [] t = "specialty" -> SpecialtyQuery
    [] t = "allOrders" -> AllOrdersQuery
    [] OTHER -> << >>

\* the analytics map of AllOrdersPage: the three totals and one entry per
\* item name of the catalog, all seeded at 0
TotalKeys == {"Total Orders", "Total Items", "Total Revenue"}

ItemNames(catalog) ==
  UNION {{it.itemName : it \in Range(m.items)} : m \in Range(catalog)}

SeedMap(catalog) == [k \in TotalKeys \cup ItemNames(catalog) |-> 0]

\* map = {...map, "Total Items": map["Total Items"] + quantity,
\*        [itemName]: (map[itemName] ?? 0) + quantity}
AddItem(map, itemName, quantity) ==
  (itemName :> (IF itemName \in DOMAIN map THEN map[itemName] ELSE 0) + quantity)
    @@ [map EXCEPT !["Total Items"] = @ + quantity]

\* the forEach over the items of a category, and over the categories of an
\* order (sums: the order of the iteration does not matter)
RECURSIVE AddItems(_, _, _)
AddItems(map, items, names) ==
  IF names = {} THEN map
  ELSE LET itemName == CHOOSE n \in names : TRUE
       IN  AddItems(AddItem(map, itemName, items[itemName].quantity),
                    items, names \ {itemName})

RECURSIVE AddCategories(_, _, _)
AddCategories(map, categories, names) ==
  IF names = {} THEN map
  ELSE LET c == CHOOSE n \in names : TRUE
       IN  AddCategories(AddItems(map, categories[c].items, DOMAIN categories[c].items),
                         categories, names \ {c})

\* the body of snapshot.docs.map for one document
AddOrder(map, data) ==
  AddCategories([map EXCEPT !["Total Orders"] = @ + 1,
                            !["Total Revenue"] = @ + data.price],
                data.categories, DOMAIN data.categories)

RECURSIVE AddOrders(_, _)
AddOrders(map, docs) ==
  IF docs = << >> THEN map ELSE AddOrders(AddOrder(map, Head(docs)), Tail(docs))

Aggregate(catalog, docs) == AddOrders(SeedMap(catalog), docs)

\* the documents of a snapshot of the orders collection
Docs(ids) == [k \in 1..Len(ids) |-> orders[ids[k]]]

\* faulty variant of the listener: a one-time read, called with the first
\* result only
SnapshotDeliveredOnce(op) ==
  \E t \in DOMAIN subscriptions[op] :
    /\ subscriptions[op][t]
    /\ subscriptions' = [subscriptions EXCEPT ![op][t] = FALSE]
    /\ IF t = tab[op]
         THEN /\ list' = [list EXCEPT ![op] = QueryOf(t)]
              /\ IF t = "allOrders"
                   THEN /\ analytics' =
                             [analytics EXCEPT ![op] = Aggregate(menu, Docs(QueryOf(t)))]
                        /\ loading' = [loading EXCEPT ![op] = FALSE]
                   ELSE UNCHANGED <<loading, analytics>>
         ELSE UNCHANGED <<list, loading, analytics>>
    /\ UNCHANGED <<cashierVars, storeVars, inflight, tab, notifications, historyVars>>

\* the onSnapshot callback of a page's listener.  The first snapshot of a
\* listener is delivered whatever the result; later ones when the result
\* changes.  The delivered result replaces the page's list; AllOrdersPage
\* also recomputes analytics and clears loading.
SnapshotDelivered(op) ==
  \E t \in DOMAIN subscriptions[op] :
    /\ subscriptions[op][t] \/ (t = tab[op] /\ list[op] # QueryOf(t))
    /\ subscriptions' = [subscriptions EXCEPT ![op][t] = FALSE]
    /\ IF t = tab[op]
         THEN /\ list' = [list EXCEPT ![op] = QueryOf(t)]
              /\ IF t = "allOrders"
                   THEN /\ analytics' =
                             [analytics EXCEPT ![op] = Aggregate(menu, Docs(QueryOf(t)))]
                        /\ loading' = [loading EXCEPT ![op] = FALSE]
                   ELSE UNCHANGED <<loading, analytics>>
         ELSE UNCHANGED <<list, loading, analytics>>
    /\ UNCHANGED <<cashierVars, storeVars, inflight, tab, notifications, historyVars>>

\* the listener the effect of a page registers at mount (CashierPage has none)
Subscribe(t) == IF t = "cashier" THEN << >> ELSE (t :> TRUE)

\* faulty variant of a change of tab: the old panel's effect has no cleanup,
\* so its listener stays registered
TabChangedKeepingSubscription(op, t) ==
  /\ tab[op] # t
  /\ tab' = [tab EXCEPT ![op] = t]
  /\ list' = [list EXCEPT ![op] = << >>]
  /\ subscriptions' = [subscriptions EXCEPT ![op] = Subscribe(t) @@ @]
  /\ loading' = [loading EXCEPT ![op] = TRUE]
  /\ analytics' = [analytics EXCEPT ![op] = << >>]
  /\ UNCHANGED <<cashierVars, storeVars, inflight, notifications, historyVars>>

\* Tabs with keepMounted={false}: the old panel is unmounted (its effect's
\* cleanup unsubscribes) and the new one is mounted with its initial state
TabChanged(op, t) ==
  /\ tab[op] # t
  /\ tab' = [tab EXCEPT ![op] = t]
  /\ list' = [list EXCEPT ![op] = << >>]
  /\ subscriptions' = [subscriptions EXCEPT ![op] = Subscribe(t)]
  /\ loading' = [loading EXCEPT ![op] = TRUE]
  /\ analytics' = [analytics EXCEPT ![op] = << >>]
  /\ UNCHANGED <<cashierVars, storeVars, inflight, notifications, historyVars>>


(***************************************************************************)
(* Completion/Undo State Machine.  An update request carries the writes    *)
(* (updateDoc calls) it still waits for; each is applied or rejected on    *)
(* its own, in any order, and the request's continuation runs when the     *)
(* last one is applied and none was rejected (await, Promise.all).         *)
(***************************************************************************)
\* faulty variant of the write of completeOrder and its undo: the value is
\* written to the order's specialtyOnly
CompletedWriteToSpecialtyOnly(value) ==
  [collection |-> "orders", field |-> <<"specialtyOnly">>, value |-> value]

CompletedWrite(value) == [collection |-> "orders", field |-> <<"completed">>, value |-> value]
CategoryDoneWrite(categoryName, value) ==
  [collection |-> "orders", field |-> <<"categories", categoryName, "done">>, value |-> value]
SpecialtyDoneWrite(value) == [collection |-> "specialty", field |-> <<"done">>, value |-> value]

\* the id of a notification: orderId, or orderId + "specialty"
NotificationId(orderId, suffix) == <<orderId, suffix>>

CanIssue == BagCardinality(inflight) < MaxInflight

\* faulty variant of checkCategory: the card of the Kitchen page also shows
\* the checkbox of the Specialty category
checkCategoryOfAnyCategory(op, orderId, categoryName, value) ==
  /\ tab[op] = "activeOrders"
  /\ orderId \in Range(list[op])
  /\ categoryName \in DOMAIN orders[orderId].categories
  /\ CanIssue
  /\ inflight' = Issue([kind |-> "checkCategory", id |-> orderId,
                        todo |-> {CategoryDoneWrite(categoryName, value)},
                        failed |-> FALSE])
  /\ UNCHANGED <<cashierVars, storeVars, viewVars, notifications, historyVars>>

\* OrderPage.checkCategory, from the checkbox of a category the card shows
checkCategory(op, orderId, categoryName, value) ==
  /\ tab[op] = "activeOrders"
  /\ orderId \in Range(list[op])
  /\ categoryName \in DOMAIN orders[orderId].categories \ {"Specialty"}
  /\ CanIssue
  /\ inflight' = Issue([kind |-> "checkCategory", id |-> orderId,
                        todo |-> {CategoryDoneWrite(categoryName, value)},
                        failed |-> FALSE])
  /\ UNCHANGED <<cashierVars, storeVars, viewVars, notifications, historyVars>>

\* faulty variant of completeOrder: the done of the Specialty category is
\* written along with completed
completeOrderWithSpecialty(op, orderId) ==
  /\ tab[op] = "server"
  /\ orderId \in Range(list[op])
  /\ CanIssue
  /\ inflight' = Issue([kind |-> "completeOrder", op |-> op, id |-> orderId,
                        todo |-> {CompletedWrite(TRUE),
                                  CategoryDoneWrite("Specialty", TRUE)},
                        failed |-> FALSE])
  /\ UNCHANGED <<cashierVars, storeVars, viewVars, notifications, historyVars>>

\* ServerPage.completeOrder, from the Complete button of a card
completeOrder(op, orderId) ==
  /\ tab[op] = "server"
  /\ orderId \in Range(list[op])
  /\ CanIssue
  /\ inflight' = Issue([kind |-> "completeOrder", op |-> op, id |-> orderId,
                        todo |-> {CompletedWrite(TRUE)}, failed |-> FALSE])
  /\ UNCHANGED <<cashierVars, storeVars, viewVars, notifications, historyVars>>

\* faulty variant of the Undo button: it can be pressed whether or not the
\* notification is shown
undoOrderAnytime(op, orderId) ==
  /\ orderId \in DOMAIN orders
  /\ CanIssue
  /\ inflight' = Issue([kind |-> "undoOrder", op |-> op, id |-> orderId,
                        todo |-> {CompletedWrite(FALSE)}, failed |-> FALSE])
  /\ UNCHANGED <<cashierVars, storeVars, viewVars, notifications, historyVars>>

\* the Undo button of the notification completeOrder shows
undoOrder(op, orderId) ==
  /\ NotificationId(orderId, "") \in DOMAIN notifications[op]
  /\ CanIssue
  /\ inflight' = Issue([kind |-> "undoOrder", op |-> op, id |-> orderId,
                        todo |-> {CompletedWrite(FALSE)}, failed |-> FALSE])
  /\ notifications' = [notifications EXCEPT ![op][NotificationId(orderId, "")] = TRUE]
  /\ UNCHANGED <<cashierVars, storeVars, viewVars, historyVars>>

\* a Specialty complete or undo of the record still has a write in flight
SpecialtyWritesInFlight(orderId) ==
  \E r \in Inflight :
    r.kind \in {"completeSpecialtyOrder", "undoSpecialtyOrder"} /\ r.id = orderId

\* what the history keeps of a Specialty complete or undo being issued
Overlap(orderId) == IF SpecialtyWritesInFlight(orderId) THEN {orderId} ELSE {}

\* faulty variant of completeSpecialtyOrder: the Order's mirror flag is not
\* written
completeSpecialtyOrderOnly(op, orderId) ==
  /\ tab[op] = "specialty"
  /\ orderId \in Range(list[op])
  /\ CanIssue
  /\ inflight' = Issue([kind |-> "completeSpecialtyOrder", op |-> op, id |-> orderId,
                        todo |-> {SpecialtyDoneWrite(TRUE)}, failed |-> FALSE])
  /\ overlapped' = overlapped \cup Overlap(orderId)
  /\ UNCHANGED <<cashierVars, storeVars, viewVars, notifications, lapsed, rejected>>

\* faulty variant of completeSpecialtyOrder: the Order's completed is
\* written along with the two done flags
completeSpecialtyOrderAndOrder(op, orderId) ==
  /\ tab[op] = "specialty"
  /\ orderId \in Range(list[op])
  /\ CanIssue
  /\ inflight' = Issue([kind |-> "completeSpecialtyOrder", op |-> op, id |-> orderId,
                        todo |-> {SpecialtyDoneWrite(TRUE),
                                  CategoryDoneWrite("Specialty", TRUE),
                                  CompletedWrite(TRUE)},
                        failed |-> FALSE])
  /\ overlapped' = overlapped \cup Overlap(orderId)
  /\ UNCHANGED <<cashierVars, storeVars, viewVars, notifications, lapsed, rejected>>

\* SpecialtyPage.completeSpecialtyOrder, from the Complete button of a card
completeSpecialtyOrder(op, orderId) ==
  /\ tab[op] = "specialty"
  /\ orderId \in Range(list[op])
  /\ CanIssue
  /\ inflight' = Issue([kind |-> "completeSpecialtyOrder", op |-> op, id |-> orderId,
                        todo |-> {SpecialtyDoneWrite(TRUE),
                                  CategoryDoneWrite("Specialty", TRUE)},
                        failed |-> FALSE])
  /\ overlapped' = overlapped \cup Overlap(orderId)
  /\ UNCHANGED <<cashierVars, storeVars, viewVars, notifications, lapsed, rejected>>

\* faulty variant of the Specialty Undo: the Order's mirror flag is not
\* written back
undoSpecialtyOrderOnly(op, orderId) ==
  /\ NotificationId(orderId, "specialty") \in DOMAIN notifications[op]
  /\ CanIssue
  /\ inflight' = Issue([kind |-> "undoSpecialtyOrder", op |-> op, id |-> orderId,
                        todo |-> {SpecialtyDoneWrite(FALSE)}, failed |-> FALSE])
  /\ notifications' =
       [notifications EXCEPT ![op][NotificationId(orderId, "specialty")] = TRUE]
  /\ overlapped' = overlapped \cup Overlap(orderId)
  /\ UNCHANGED <<cashierVars, storeVars, viewVars, lapsed, rejected>>

\* the Undo button of the notification completeSpecialtyOrder shows
undoSpecialtyOrder(op, orderId) ==
  /\ NotificationId(orderId, "specialty") \in DOMAIN notifications[op]
  /\ CanIssue
  /\ inflight' = Issue([kind |-> "undoSpecialtyOrder", op |-> op, id |-> orderId,
                        todo |-> {SpecialtyDoneWrite(FALSE),
                                  CategoryDoneWrite("Specialty", FALSE)},
                        failed |-> FALSE])
  /\ notifications' =
       [notifications EXCEPT ![op][NotificationId(orderId, "specialty")] = TRUE]
  /\ overlapped' = overlapped \cup Overlap(orderId)
  /\ UNCHANGED <<cashierVars, storeVars, viewVars, lapsed, rejected>>

UpdateKinds == {"checkCategory", "completeOrder", "undoOrder",
                "completeSpecialtyOrder", "undoSpecialtyOrder"}

\* faulty variant of updateDoc: a write of one category's done sets the done
\* of every category of the document
SetFieldOfEveryCategory(document, field, value) ==
  IF Len(field) = 1
    THEN [document EXCEPT ![field[1]] = value]
    ELSE LET categories == document.categories
         IN  [document EXCEPT !.categories =
                [c \in DOMAIN categories |-> [categories[c] EXCEPT !.done = value]]]

\* updateDoc of a field path on a document: the nested field is set, and a
\* map on the path that does not exist yet is created
SetField(document, field, value) ==
  IF Len(field) = 1
    THEN [document EXCEPT ![field[1]] = value]
    ELSE IF field[2] \in DOMAIN document.categories
      THEN [document EXCEPT !.categories[field[2]].done = value]
      ELSE [document EXCEPT !.categories = @ @@ (field[2] :> [done |-> value])]

\* updateDoc rejects when the document does not exist
CanApply(w, id) ==
  IF w.collection = "orders" THEN id \in DOMAIN orders ELSE id \in DOMAIN specialty

\* the request after one of its writes is settled; a rejected write makes
\* the await throw, so the rest of the handler never runs
Settled(r, w, ok) ==
  LET rest == [r EXCEPT !.todo = @ \ {w}, !.failed = @ \/ ~ok]
  IN  IF rest.todo = {} THEN Settle(r) ELSE Settle(r) (+) SetToBag({rest})

\* notifications.show: a notification whose id is already shown is not added
Show(shown, nid) == IF nid \in DOMAIN shown THEN shown ELSE shown @@ (nid :> FALSE)

\* faulty variant of hideNotification: the notification stays
HideNothing(shown, nid) == shown

\* faulty variant of hideNotification: every notification of the order is
\* hidden, whatever its suffix
HideOfOrder(shown, nid) ==
  [n \in {m \in DOMAIN shown : m[1] # nid[1]} |-> shown[n]]

\* hideNotification
Hide(shown, nid) == [n \in DOMAIN shown \ {nid} |-> shown[n]]

\* what the handler does after its await
Continuation(r) ==
  CASE r.kind = "completeOrder" ->
         [notifications EXCEPT ![r.op] = Show(@, NotificationId(r.id, ""))]
    [] r.kind = "undoOrder" ->
         [notifications EXCEPT ![r.op] = Hide(@, NotificationId(r.id, ""))]
    [] r.kind = "completeSpecialtyOrder" ->
         [notifications EXCEPT ![r.op] = Show(@, NotificationId(r.id, "specialty"))]
    [] r.kind = "undoSpecialtyOrder" ->
         [notifications EXCEPT ![r.op] = Hide(@, NotificationId(r.id, "specialty"))]
    [] OTHER -> notifications

\* one updateDoc of a request is applied by the store
UpdateApplied(r, w) ==
  /\ r \in Inflight /\ r.kind \in UpdateKinds
  /\ w \in r.todo
  /\ CanApply(w, r.id)
  /\ IF w.collection = "orders"
       THEN /\ orders' = [orders EXCEPT ![r.id] = SetField(@, w.field, w.value)]
            /\ UNCHANGED specialty
       ELSE /\ specialty' = [specialty EXCEPT ![r.id] = SetField(@, w.field, w.value)]
            /\ UNCHANGED orders
  /\ inflight' = Settled(r, w, TRUE)
  /\ notifications' = IF r.todo = {w} /\ ~r.failed THEN Continuation(r) ELSE notifications
  /\ UNCHANGED <<cashierVars, clock, viewVars, historyVars>>

\* faulty variant of a rejected updateDoc: the handler goes on after its
\* await as if the write had been applied
UpdateFailedUnnoticed(r, w) ==
  /\ r \in Inflight /\ r.kind \in UpdateKinds
  /\ w \in r.todo
  /\ inflight' = Settled(r, w, TRUE)
  /\ notifications' = IF r.todo = {w} /\ ~r.failed THEN Continuation(r) ELSE notifications
  /\ rejected' = rejected \cup Rejection(r)
  /\ UNCHANGED <<cashierVars, storeVars, viewVars, lapsed, overlapped>>

\* one updateDoc of a request is rejected by the store
UpdateFailed(r, w) ==
  /\ r \in Inflight /\ r.kind \in UpdateKinds
  /\ w \in r.todo
  /\ inflight' = Settled(r, w, FALSE)
  /\ rejected' = rejected \cup Rejection(r)
  /\ UNCHANGED <<cashierVars, storeVars, viewVars, notifications, lapsed, overlapped>>

\* a notification closes on its own after autoClose (8000 ms), or by its
\* close button
NotificationClosed(op, nid) ==
  /\ nid \in DOMAIN notifications[op]
  /\ notifications' = [notifications EXCEPT ![op] = Hide(@, nid)]
  /\ lapsed' = IF nid[2] = "" /\ ~notifications[op][nid] THEN lapsed \cup {nid[1]}
               ELSE lapsed
  /\ UNCHANGED <<cashierVars, storeVars, inflight, viewVars, rejected, overlapped>>

(***************************************************************************)
(* Specifications.                                                         *)
(***************************************************************************)
AllWrites ==
  {CompletedWrite(v) : v \in BOOLEAN} \cup {SpecialtyDoneWrite(v) : v \in BOOLEAN}
  \cup {CategoryDoneWrite(m.categoryName, v) : m \in Range(menu), v \in BOOLEAN}

NotificationIds == {NotificationId(i, s) : i \in OrderIds, s \in {"", "specialty"}}

\* the requests the store settles, in any order
StoreNext ==
  \/ \E r \in Inflight : AddDocApplied(r)
  \/ \E r \in Inflight : SetDocApplied(r)
  \/ \E r \in Inflight : CreateFailed(r)
  \/ \E r \in Inflight, w \in AllWrites : UpdateApplied(r, w)
  \/ \E r \in Inflight, w \in AllWrites : UpdateFailed(r, w)

\* every handler of the kitchen, server, specialty and audit pages of one
\* browser, with the orders cashiers confirm and the store
Next ==
  \/ \E formValues \in SampleForms : OrderConfirmed(formValues, MaxSharedOrders)
  \/ StoreNext
  \/ SnapshotDelivered("op1")
  \/ \E t \in Tabs : TabChanged("op1", t)
  \/ \E i \in OrderIds, m \in Range(menu), v \in BOOLEAN :
       i \in DOMAIN orders /\ checkCategory("op1", i, m.categoryName, v)
  \/ \E i \in OrderIds : completeOrder("op1", i)
  \/ \E i \in OrderIds : undoOrder("op1", i)
  \/ \E i \in OrderIds : completeSpecialtyOrder("op1", i)
  \/ \E i \in OrderIds : undoSpecialtyOrder("op1", i)
  \/ \E nid \in NotificationIds : NotificationClosed("op1", nid)

Spec == Init /\ [][Next]_vars

\* several orders, with one browser on the kitchen and audit pages
OrdersNext ==
  \/ \E formValues \in SampleForms : OrderConfirmed(formValues, MaxOrders)
  \/ StoreNext
  \/ SnapshotDelivered("op1")
  \/ \E t \in {"activeOrders", "allOrders"} : TabChanged("op1", t)
  \/ \E i \in OrderIds, m \in Range(menu), v \in BOOLEAN :
       i \in DOMAIN orders /\ checkCategory("op1", i, m.categoryName, v)

SpecOrders == Init /\ [][OrdersNext]_vars

\* two browsers on the Servers page
ServerNext ==
  \/ \E formValues \in SampleForms : OrderConfirmed(formValues, MaxSharedOrders)
  \/ StoreNext
  \/ \E op \in Operators : SnapshotDelivered(op)
  \/ \E op \in Operators : TabChanged(op, "server")
  \/ \E op \in Operators, i \in OrderIds : completeOrder(op, i)
  \/ \E op \in Operators, i \in OrderIds : undoOrder(op, i)
  \/ \E op \in Operators, nid \in NotificationIds : NotificationClosed(op, nid)

SpecServer == Init /\ [][ServerNext]_vars

\* two browsers on the Specialty page
SpecialtyNext ==
  \/ \E formValues \in SampleForms : OrderConfirmed(formValues, MaxSharedOrders)
  \/ StoreNext
  \/ \E op \in Operators : SnapshotDelivered(op)
  \/ \E op \in Operators : TabChanged(op, "specialty")
  \/ \E op \in Operators, i \in OrderIds : completeSpecialtyOrder(op, i)
  \/ \E op \in Operators, i \in OrderIds : undoSpecialtyOrder(op, i)
  \/ \E op \in Operators, nid \in NotificationIds : NotificationClosed(op, nid)

SpecSpecialty == Init /\ [][SpecialtyNext]_vars

\* the cashier's browser: the Order Builder and the submission of its orders
CashierNext ==
  \/ \E m \in Range(menu), q \in 0..MaxQty : \E it \in Range(m.items) :
       ChangeQuantity(m.categoryName, it.itemName, q)
  \/ \E d \in 0..MaxDiscount : ChangeDiscount(d)
  \/ \E n \in Numbers : ChangeNumber(n)
  \/ onSubmitInvalid
  \/ handleSubmit
  \/ onCancel
  \/ onConfirm
  \/ \E r \in Inflight : AddDocApplied(r)
  \/ \E r \in Inflight : SetDocApplied(r)
  \/ \E r \in Inflight : CreateFailed(r)

SpecCashier == Init /\ [][CashierNext]_vars

\* makeOrder applied to any form value within the bounds, with the total
\* onValuesChange leaves for it
Selections ==
  {items \in [DOMAIN InitialItems ->
                UNION {[DOMAIN InitialItems[c] -> 0..MaxQty] : c \in DOMAIN InitialItems}] :
     \A c \in DOMAIN InitialItems : DOMAIN items[c] = DOMAIN InitialItems[c]}

FormValues ==
  [number : Numbers, notes : NotesValues, discount : 0..MaxDiscount,
   zone : {"Undecided"}, items : Selections]

InitMakeOrder ==
  /\ itemPriceMap = PriceMapOf(menu)
  /\ form \in FormValues
  /\ total = calculateTotal(form.items) - form.discount
  /\ modal = << >>
  /\ errors = {}
  /\ orders = << >>
  /\ specialty = << >>
  /\ clock = 0
  /\ inflight = EmptyBag
  /\ tab = [op \in Operators |-> "cashier"]
  /\ list = [op \in Operators |-> << >>]
  /\ subscriptions = [op \in Operators |-> << >>]
  /\ loading = [op \in Operators |-> TRUE]
  /\ analytics = [op \in Operators |-> << >>]
  /\ notifications = [op \in Operators |-> << >>]
  /\ lapsed = {}
  /\ rejected = {}
  /\ overlapped = {}

OrderMade ==
  /\ modal = << >>
  /\ modal' = <<makeOrder(form, total)>>
  /\ UNCHANGED <<form, total, errors, itemPriceMap, storeVars, inflight, viewVars, notifications, historyVars>>

MakeOrderNext == OrderMade \/ onCancel

SpecMakeOrder == InitMakeOrder /\ [][MakeOrderNext]_vars

(***************************************************************************)
(* Properties of the Order Builder.                                        *)
(***************************************************************************)
\* the lines of the catalog: <<categoryName, itemName, price>>
CatalogLines ==
  UNION {{<<m.categoryName, it.itemName, it.price>> : it \in Range(m.items)} :
           m \in Range(menu)}

RECURSIVE LineSum(_, _)
LineSum(items, lines) ==
  IF lines = {} THEN 0
  ELSE LET l == CHOOSE x \in lines : TRUE
       IN  items[l[1]][l[2]] * l[3] + LineSum(items, lines \ {l})

\* C4: in every state of the Order Builder, whatever quantity edits,
\* discount edits and confirmed submits led to it, the displayed total is
\* the sum over all catalog items of quantity x unit price, minus the
\* discount.
C4_TotalIsSumMinusDiscount ==
  total = LineSum(form.items, CatalogLines) - form.discount

\* an order has been confirmed, and the form filled again with two kinds of
\* item and a discount
C4_Witness ==
  /\ Cardinality(DOMAIN orders) + PendingOrders > 0
  /\ form.items["Food"]["Burger"] = 2
  /\ form.items["Specialty"]["CustomCake"] = 1
  /\ form.discount = 2
  /\ total = 23

\* the form passes the two rules of section 4.1: the order number is
\* present and positive, and the discount is at most the pre-discount sum
ValidForm ==
  /\ form.number # NoNumber /\ form.number > 0
  /\ form.discount <= LineSum(form.items, CatalogLines)

\* the documents of the Order creates in flight
OrdersInFlight == {r.doc : r \in {q \in Inflight : q.kind = "addDoc"}}

\* C11: a submit of a form with an empty or not positive order number, or
\* with a discount greater than the pre-discount sum, shows its errors and
\* opens no confirmation, writes nothing and leaves the form unchanged; the
\* confirmation opens only for a valid form, and no step taken with an
\* invalid form opens it or issues a create; and no Order stored or on its
\* way to the store has number <= 0 or price < 0.
C11_InvalidSubmitRejected ==
  /\ [](\A o \in Range(orders) \cup OrdersInFlight : o.number > 0 /\ o.price >= 0)
  /\ [](modal # << >> => ValidForm /\ modal[1].number > 0 /\ modal[1].price >= 0)
  /\ [][~(errors' \subseteq errors) =>
          /\ ~ValidForm
          /\ UNCHANGED <<form, total, modal, orders, specialty, inflight>>]_vars
  /\ [][~ValidForm => modal' = << >> /\ PendingOrders' <= PendingOrders]_vars

\* a form with number 1 and a discount of 2 on an empty selection has been
\* submitted and shows the discount error, after an order was stored
C11_Witness ==
  /\ errors = {"discount"}
  /\ form.number = 1 /\ form.discount = 2 /\ total = -2
  /\ modal = << >>
  /\ Cardinality(DOMAIN orders) = 1

\* C12: an Order create is issued only by a step that closes the open
\* confirmation, one create per such step, for the order the confirmation
\* shows, and that step resets the form; a step that closes the
\* confirmation either is such a confirm or, as a cancel, leaves the form,
\* the store and the requests unchanged. So the creates issued are as many
\* as the confirmations, and none is issued without one.
C12_SubmitOncePerConfirmation ==
  /\ [][PendingOrders' > PendingOrders =>
          /\ modal # << >> /\ modal' = << >>
          /\ PendingOrders' = PendingOrders + 1
          /\ \E r \in BagToSet(inflight') :
                /\ r.kind = "addDoc"
                /\ inflight' = inflight (+) SetToBag({r})
                /\ \A f \in DOMAIN modal[1] : r.doc[f] = modal[1][f]
          /\ form' = initialValues /\ total' = 0
          /\ UNCHANGED <<orders, specialty>>]_vars
  /\ [][modal # << >> /\ modal' = << >> =>
          \/ PendingOrders' = PendingOrders + 1 /\ form' = initialValues
          \/ UNCHANGED <<form, total, orders, specialty, inflight>>]_vars
  /\ [][modal # << >> /\ modal' # << >> => PendingOrders' <= PendingOrders]_vars

\* a confirmation has been closed by Confirm: its one create is in flight,
\* nothing is stored yet and the form is reset
C12_Witness ==
  /\ modal = << >>
  /\ form = initialValues /\ total = 0
  /\ PendingOrders = 1
  /\ orders = << >>

\* C13: no Order with an empty categories map is on its way to the store
\* or stored, whatever selection and discount passed validation.
C13_NoEmptyOrderSubmitted ==
  \A o \in Range(orders) \cup OrdersInFlight : DOMAIN o.categories # {}

\* the quantities of the form that are greater than 0, by category
Selected(items, c) == {it \in DOMAIN items[c] : items[c][it] > 0}

\* C5: the order makeOrder builds from the form has exactly the categories
\* with at least one item of quantity > 0, each with exactly the items of
\* quantity > 0 at that quantity and with done = FALSE, and has completed =
\* FALSE.
C5_MakeOrderKeepsSelected ==
  modal # << >> =>
    LET order == modal[1]
    IN  /\ DOMAIN order.categories = {c \in DOMAIN form.items : Selected(form.items, c) # {}}
        /\ \A c \in DOMAIN order.categories :
              /\ DOMAIN order.categories[c].items = Selected(form.items, c)
              /\ \A it \in Selected(form.items, c) :
                    order.categories[c].items[it].quantity = form.items[c][it]
              /\ order.categories[c].done = FALSE
        /\ order.completed = FALSE

\* makeOrder has dropped an item of a kept category, and a whole category
C5_Witness ==
  /\ modal # << >>
  /\ form.items["Food"]["Burger"] = 2
  /\ form.items["Food"]["Fries"] = 0
  /\ form.items["Specialty"]["CustomCake"] = 0
  /\ DOMAIN modal[1].categories = {"Food"}
  /\ DOMAIN modal[1].categories["Food"].items = {"Burger"}

(***************************************************************************)
(* Properties of the Order Submission Protocol.                            *)
(***************************************************************************)
HasSpecialty(i) == i \in DOMAIN orders /\ "Specialty" \in DOMAIN orders[i].categories

\* the number of Specialty creates for order i still to be settled
SetDocsInFlight(i) ==
  BagCardinality([r \in {q \in Inflight : q.kind = "setDoc" /\ q.id = i} |-> inflight[r]])

\* a Specialty record (stored, or carried by a create) copies order i
MirrorsOrder(record, i) ==
  /\ HasSpecialty(i)
  /\ record.items = orders[i].categories["Specialty"].items
  /\ record.number = orders[i].number
  /\ record.notes = orders[i].notes

C3_OneMirroringRecord ==
  \A i \in OrderIds :
    /\ (IF i \in DOMAIN specialty THEN 1 ELSE 0) + SetDocsInFlight(i) <= 1
    /\ i \in DOMAIN specialty => MirrorsOrder(specialty[i], i)
    /\ \A r \in Inflight :
          r.kind = "setDoc" /\ r.id = i => MirrorsOrder(r.doc, i) /\ r.doc.done = FALSE

C3_CreatedOnceNotDone ==
  \A i \in OrderIds :
    /\ i \notin DOMAIN specialty /\ i \in DOMAIN specialty' => specialty'[i].done = FALSE
    /\ SetDocsInFlight(i)' > SetDocsInFlight(i) =>
          i \notin DOMAIN orders /\ i \in DOMAIN orders'

\* C3: for every submitted Order whose categories contain "Specialty", at
\* most one Specialty record is ever created: its create is issued only by
\* the step that stores the Order, under the Order's identifier, with items
\* equal to the Order's Specialty items and number and notes equal to the
\* Order's, and the record appears with done = FALSE.  An Order without a
\* "Specialty" category never gets a record or a create.
C3_SpecialtyRecordMirrorsOrder ==
  []C3_OneMirroringRecord /\ [][C3_CreatedOnceNotDone]_vars

\* the first order has no Specialty category and no record, the second has
\* its record, under its own identifier and with its notes
C3_Witness ==
  /\ Len(orders) = 2
  /\ ~HasSpecialty(1) /\ 1 \notin DOMAIN specialty
  /\ HasSpecialty(2) /\ DOMAIN specialty = {2}
  /\ specialty[2].notes = "no ice"
  /\ inflight = EmptyBag

\* C6: every persisted Order has specialtyOnly = TRUE exactly when the keys
\* of its categories are the single key "Specialty".
C6_SpecialtyOnlyFlag ==
  \A i \in DOMAIN orders :
    orders[i].specialtyOnly = (DOMAIN orders[i].categories = {"Specialty"})

\* a Specialty-only order and an order with Specialty among two categories
C6_Witness ==
  /\ Len(orders) = 2
  /\ orders[1].specialtyOnly
  /\ DOMAIN orders[2].categories = {"Food", "Specialty"}
  /\ ~orders[2].specialtyOnly

(***************************************************************************)
(* Properties of the kitchen's category toggle.                            *)
(***************************************************************************)
\* C9: the step that settles a Kitchen toggle of category c of Order X
\* changes nothing but X.categories[c].done: X.completed, X's other fields,
\* X's other categories, the items of c, every other Order and every
\* Specialty record are as before, and so is X's membership in the result
\* of the Kitchen and Server query; an applied toggle leaves the value the
\* checkbox gave.
C9_ToggleFrame ==
  [][\A r \in Inflight :
       r.kind = "checkCategory" /\ inflight' = Settle(r) =>
         LET w == CHOOSE x \in r.todo : TRUE
             c == w.field[2]
             X == orders[r.id]
             newX == orders'[r.id]
         IN  /\ specialty' = specialty
             /\ DOMAIN orders' = DOMAIN orders
             /\ \A j \in DOMAIN orders \ {r.id} : orders'[j] = orders[j]
             /\ DOMAIN newX = DOMAIN X
             /\ \A f \in DOMAIN X \ {"categories"} : newX[f] = X[f]
             /\ DOMAIN newX.categories = DOMAIN X.categories
             /\ \A d \in DOMAIN X.categories \ {c} : newX.categories[d] = X.categories[d]
             /\ newX.categories[c].items = X.categories[c].items
             /\ orders' # orders => newX.categories[c].done = w.value
             /\ (r.id \in Range(ActiveOrdersQuery)') = (r.id \in Range(ActiveOrdersQuery))
    ]_vars

\* of two orders, the second has had its Food category checked: its
\* Specialty category and its completed field are as submitted
C9_Witness ==
  /\ Len(orders) = 2
  /\ DOMAIN orders[2].categories = {"Food", "Specialty"}
  /\ orders[2].categories["Food"].done
  /\ ~orders[2].categories["Specialty"].done
  /\ ~orders[2].completed
  /\ inflight = EmptyBag

(***************************************************************************)
(* Properties of the Server view's complete and undo.                      *)
(***************************************************************************)
OrderNotificationShown(op, i) == NotificationId(i, "") \in DOMAIN notifications[op]

\* the number of Order-level undo writes for order i still to be settled
UndoOrdersInFlight(i) ==
  BagCardinality([r \in {q \in Inflight : q.kind = "undoOrder" /\ q.id = i} |-> inflight[r]])

\* C7: an undo of a Server-view completion is issued only while the
\* notification that offers it is shown in the operator's browser (after
\* the window has expired there is none to issue), and the step in which
\* the store applies an undo leaves the Order with completed = FALSE and
\* the operator's notification for it withdrawn.  (A rejected undo changes
\* neither the store nor the notifications.)
C7_UndoWithinWindow ==
  [][/\ \A r \in Inflight :
          /\ r.kind = "undoOrder" /\ inflight' = Settle(r)
          /\ orders' # orders \/ notifications' # notifications
          => /\ orders'[r.id].completed = FALSE
             /\ ~OrderNotificationShown(r.op, r.id)'
     /\ \A op \in Operators, i \in OrderIds :
          (\E r \in BagToSet(inflight') :
             /\ r.kind = "undoOrder" /\ r.op = op /\ r.id = i
             /\ CopiesIn(r, inflight') > CopiesIn(r, inflight))
          => OrderNotificationShown(op, i)
    ]_vars

\* both operators completed the order; the first one's undo has been
\* applied: the order is active again and that operator's notification is
\* gone, while the second operator's notification is still shown
C7_Witness ==
  /\ 1 \in DOMAIN orders
  /\ orders[1].completed = FALSE
  /\ ~OrderNotificationShown("op1", 1)
  /\ OrderNotificationShown("op2", 1)
  /\ notifications["op2"][NotificationId(1, "")] = FALSE
  /\ inflight = EmptyBag

\* C8 as stated: once an Order-level notification closed with Undo never
\* pressed, a completed = TRUE of that Order is never set back to FALSE.
C8_LapsedStaysCompleted ==
  [][\A i \in lapsed : orders[i].completed => orders'[i].completed]_vars

\* C8, amended: once an Order is completed, no browser shows an Order-level
\* notification for it and no undo write for it is in flight, the next
\* state has it completed still and no undo write for it in flight: it
\* stays completed until a further completion of it shows a notification
\* again.
C8_CompletedOnceAllWindowsClosed ==
  [][\A i \in DOMAIN orders :
       /\ orders[i].completed
       /\ \A op \in Operators : ~OrderNotificationShown(op, i)
       /\ UndoOrdersInFlight(i) = 0
       => orders'[i].completed /\ UndoOrdersInFlight(i)' = 0
    ]_vars

\* an undo window lapsed, and every window of the completed order is closed
C8_Witness ==
  /\ 1 \in lapsed
  /\ orders[1].completed
  /\ \A op \in Operators : ~OrderNotificationShown(op, 1)
  /\ inflight = EmptyBag

(***************************************************************************)
(* Properties of the live views.                                           *)
(***************************************************************************)
\* the documents a page's query selects
Selection(t) ==
  CASE t \in {"activeOrders", "server"} ->
         {i \in DOMAIN orders : ~orders[i].completed /\ ~orders[i].specialtyOnly}
    [] t = "specialty" -> {i \in DOMAIN specialty : ~specialty[i].done}
    [] OTHER -> DOMAIN orders

\* C10: a step that delivers a snapshot to a mounted Kitchen, Server or
\* Specialty page leaves the page's list with exactly the Orders that have
\* completed = FALSE and specialtyOnly = FALSE (Kitchen, Server), or exactly
\* the Specialty records that have done = FALSE (Specialty), each once:
\* nothing of the previous list survives unless the query selects it.
C10_ListIsQueryResult ==
  [][\A op \in Operators :
       /\ list'[op] # list[op]
       /\ tab'[op] = tab[op]
       /\ tab[op] \in {"activeOrders", "server", "specialty"}
       => /\ Range(list'[op]) = Selection(tab[op])
          /\ Len(list'[op]) = Cardinality(Selection(tab[op]))
    ]_vars

\* the Specialty page listed the record, its operator completed it, and a
\* later snapshot emptied the list
C10_Witness ==
  /\ tab["op1"] = "specialty"
  /\ 1 \in DOMAIN specialty /\ specialty[1].done
  /\ NotificationId(1, "specialty") \in DOMAIN notifications["op1"]
  /\ list["op1"] = << >>
  /\ inflight = EmptyBag

(***************************************************************************)
(* Properties of the Specialty record and its mirror flag.                 *)
(***************************************************************************)
\* C1 as stated: in every reachable state a Specialty record with
\* identifier i exists if and only if the Order with identifier i exists
\* and its categories contain "Specialty".
C1_RecordIffSpecialtyCategory ==
  \A i \in OrderIds : i \in DOMAIN specialty <=> HasSpecialty(i)

\* C1, amended: in every reachable state a Specialty record with identifier
\* i exists only if the Order with identifier i exists and its categories
\* contain "Specialty"; and an Order whose categories contain "Specialty"
\* has its record, or the create of the record is still in flight, or the
\* store rejected that create.
C1_RecordOnlyIfAndUnlessPendingOrRejected ==
  \A i \in OrderIds :
    /\ i \in DOMAIN specialty => HasSpecialty(i)
    /\ HasSpecialty(i) =>
          \/ i \in DOMAIN specialty
          \/ SetDocsInFlight(i) > 0
          \/ <<"create", i>> \in rejected

\* the order with a Specialty category has got its record
C1_Witness ==
  /\ HasSpecialty(1)
  /\ 1 \in DOMAIN specialty
  /\ specialty[1].items = orders[1].categories["Specialty"].items
  /\ rejected = {}
  /\ inflight = EmptyBag

MirrorFlagsAgree(i) ==
  specialty[i].done = orders[i].categories["Specialty"].done

\* C2 as stated: for any interleaving of Specialty completes and undos by
\* the operators with no write rejected, in every state where no such write
\* is in flight the record's done equals the Order's Specialty done.
C2_MirrorFlagsAgreeWhenQuiet ==
  \A i \in DOMAIN specialty :
    ~SpecialtyWritesInFlight(i) /\ <<"done", i>> \notin rejected => MirrorFlagsAgree(i)

\* C2, amended: the same, for the interleavings in which no Specialty
\* complete or undo of a record is issued while another one of the same
\* record still has a write in flight.
C2_MirrorFlagsAgreeWhenSerial ==
  \A i \in DOMAIN specialty :
    /\ ~SpecialtyWritesInFlight(i)
    /\ <<"done", i>> \notin rejected
    /\ i \notin overlapped
    => MirrorFlagsAgree(i)

\* both operators completed the record, one after the other, and the first
\* operator's undo has been applied: both flags are FALSE again
C2_Witness ==
  /\ 1 \in DOMAIN specialty
  /\ ~specialty[1].done /\ ~orders[1].categories["Specialty"].done
  /\ NotificationId(1, "specialty") \notin DOMAIN notifications["op1"]
  /\ NotificationId(1, "specialty") \in DOMAIN notifications["op2"]
  /\ overlapped = {} /\ rejected = {}
  /\ inflight = EmptyBag

(***************************************************************************)
(* Properties of the stored records.                                       *)
(***************************************************************************)
\* the categories of a stored Order are those a selection yields: the
\* categories with a quantity > 0, each with its items of quantity > 0
BuiltFrom(categories, items) ==
  /\ DOMAIN categories = {c \in DOMAIN items : Selected(items, c) # {}}
  /\ \A c \in DOMAIN categories :
        /\ DOMAIN categories[c].items = Selected(items, c)
        /\ \A it \in Selected(items, c) :
              categories[c].items[it] = [quantity |-> items[c][it]]

\* C14: in every reachable state, after any submissions, category toggles,
\* completions and undos, no stored Order has a category with an empty
\* items map or an item of quantity <= 0, and the categories and items read
\* back from the store are those built from a submitted selection.
C14_StoredCategoriesAsBuilt ==
  \A i \in DOMAIN orders :
    /\ \A c \in DOMAIN orders[i].categories :
          /\ DOMAIN orders[i].categories[c].items # {}
          /\ \A it \in DOMAIN orders[i].categories[c].items :
                orders[i].categories[c].items[it].quantity > 0
    /\ \E f \in SampleForms :
          /\ orders[i].number = f.number /\ orders[i].notes = f.notes
          /\ BuiltFrom(orders[i].categories, f.items)

\* the order of Fries and two CustomCakes is stored without its Burger
\* line, its Food category has been toggled and the order completed
C14_Witness ==
  /\ 1 \in DOMAIN orders
  /\ DOMAIN orders[1].categories = {"Food", "Specialty"}
  /\ DOMAIN orders[1].categories["Food"].items = {"Fries"}
  /\ orders[1].categories["Specialty"].items["CustomCake"].quantity = 2
  /\ orders[1].categories["Food"].done
  /\ orders[1].completed

\* the fields of an Order no view writes
FixedOrderFields ==
  {"number", "price", "discount", "notes", "zone", "specialtyOnly", "timestamp"}

\* C15: in every step, every stored Order and every Specialty record is
\* still stored afterwards; an Order keeps its number, price, discount,
\* notes, zone, specialtyOnly, timestamp, the key set of its categories and
\* every items map, so that only completed and the categories' done can
\* differ; a Specialty record keeps every field but done.
C15_OnlyFlagsChange ==
  [][/\ \A i \in DOMAIN orders :
          /\ i \in DOMAIN orders'
          /\ DOMAIN orders'[i] = DOMAIN orders[i]
          /\ \A f \in FixedOrderFields : orders'[i][f] = orders[i][f]
          /\ DOMAIN orders'[i].categories = DOMAIN orders[i].categories
          /\ \A c \in DOMAIN orders[i].categories :
                /\ DOMAIN orders'[i].categories[c] = {"done", "items"}
                /\ orders'[i].categories[c].items = orders[i].categories[c].items
     /\ \A i \in DOMAIN specialty :
          /\ i \in DOMAIN specialty'
          /\ DOMAIN specialty'[i] = DOMAIN specialty[i]
          /\ \A f \in DOMAIN specialty[i] \ {"done"} : specialty'[i][f] = specialty[i][f]
    ]_vars

\* every flag of the stored order and of its Specialty record has been
\* written: completed, the done of both categories and the record's done
C15_Witness ==
  /\ 1 \in DOMAIN orders /\ 1 \in DOMAIN specialty
  /\ orders[1].completed
  /\ orders[1].categories["Food"].done
  /\ orders[1].categories["Specialty"].done
  /\ specialty[1].done
  /\ orders[1].number = 2 /\ orders[1].notes = "no ice" /\ specialty[1].notes = "no ice"

\* the ids the Specialty requests in flight are addressed to: the creates,
\* and the completes and undos of the Specialty page
SpecialtyIdsInFlight ==
  {r.id : r \in {q \in Inflight : q.kind \in {"setDoc", "completeSpecialtyOrder",
                                              "undoSpecialtyOrder"}}}

\* C20: in every reachable state, every Specialty record and every
\* Specialty create or write in flight has the id of a stored Order, and a
\* Specialty create in flight is that of a stored Order with a "Specialty"
\* category: the create is issued only once its Order is stored.
C20_SpecialtyAfterOrder ==
  /\ DOMAIN specialty \subseteq DOMAIN orders
  /\ SpecialtyIdsInFlight \subseteq DOMAIN orders
  /\ \A i \in OrderIds : SetDocsInFlight(i) > 0 => HasSpecialty(i)

\* the Order is stored and its Specialty create is in flight, the record
\* not yet written
C20_Witness ==
  /\ 1 \in DOMAIN orders
  /\ SetDocsInFlight(1) = 1
  /\ 1 \notin DOMAIN specialty
  /\ PendingOrders = 0

(***************************************************************************)
(* Properties of the views' subscriptions and state.                       *)
(***************************************************************************)
\* the pages that subscribe to a live query while mounted
MountedViews(op) == {tab[op]} \ {"cashier"}

\* C19: in every state the live subscriptions of a browser are exactly
\* those of its mounted view (none for the Order Builder), so the step that
\* tears a view down releases its subscription; and every step that
\* delivers a snapshot delivers it to the mounted view, whose list becomes
\* the query's result.
C19_SubscriptionsAreMountedViews ==
  /\ [](\A op \in Operators : DOMAIN subscriptions[op] = MountedViews(op))
  /\ [][\A op \in Operators :
          /\ tab'[op] # tab[op] => DOMAIN subscriptions'[op] = {tab'[op]} \ {"cashier"}
          /\ tab'[op] = tab[op] /\ subscriptions'[op] # subscriptions[op] =>
                /\ DOMAIN subscriptions[op] = {tab[op]}
                /\ list'[op] = QueryOf(tab[op])'
          /\ tab'[op] = tab[op] /\ tab[op] = "cashier" =>
                UNCHANGED <<list[op], loading[op], analytics[op]>>]_vars

\* the Servers page has been torn down (its notification is still shown)
\* and the Specialty page, mounted since, has received its snapshot
C19_Witness ==
  /\ tab["op1"] = "specialty"
  /\ NotificationId(1, "") \in DOMAIN notifications["op1"]
  /\ subscriptions["op1"] = ("specialty" :> FALSE)
  /\ list["op1"] = <<1>>

\* what a browser renders in place of its page: AllOrdersPage returns
\* "Loading orders..." while its loading state is TRUE; OrderPage, ServerPage
\* and SpecialtyPage keep no loading state and always render their list
ShowsLoading(op) == tab[op] = "allOrders" /\ loading[op]

\* the mounted view of the browser has not received its first snapshot
AwaitsFirstSnapshot(op) ==
  tab[op] \in DOMAIN subscriptions[op] /\ subscriptions[op][tab[op]]

\* C18: for each view, loading is true from mount until the first snapshot
\* arrives and false from then on while the view stays mounted: in every
\* state a mounted view shows loading exactly when its first snapshot is
\* still to come.
C18_LoadingUntilFirstSnapshot ==
  \A op \in Operators :
    tab[op] # "cashier" => (ShowsLoading(op) <=> AwaitsFirstSnapshot(op))

(***************************************************************************)
(* The aggregate of AllOrdersPage as a function of the snapshot, over a    *)
(* catalog whose item names are unique within their category only.         *)
(***************************************************************************)
AuditMenu ==
  << [categoryName |-> "Food",
      items |-> << [itemName |-> "Cake", price |-> 4],
                   [itemName |-> "Tea", price |-> 2] >>],
     [categoryName |-> "Specialty",
      items |-> << [itemName |-> "Cake", price |-> 6] >>] >>

\* the lines of that catalog: <<categoryName, itemName, price>>
AuditLines ==
  UNION {{<<m.categoryName, it.itemName, it.price>> : it \in Range(m.items)} :
           m \in Range(AuditMenu)}

\* the quantities an operator can select of each line
AuditSelections == [AuditLines -> 0..MaxQty]

\* the Order that makeOrder and submitOrder build from a selection: the
\* lines of quantity > 0 by category, the price the sum of the lines
RECURSIVE AuditPrice(_, _)
AuditPrice(sel, lines) ==
  IF lines = {} THEN 0
  ELSE LET l == CHOOSE x \in lines : TRUE
       IN  sel[l] * l[3] + AuditPrice(sel, lines \ {l})

AuditOrder(sel) ==
  LET kept == {l \in AuditLines : sel[l] > 0}
  IN  [number |-> 1, price |-> AuditPrice(sel, AuditLines), discount |-> 0,
       notes |-> "", completed |-> FALSE, zone |-> "Undecided",
       categories |->
         [c \in {l[1] : l \in kept} |->
            [done |-> FALSE,
             items |-> [n \in {l[2] : l \in {x \in kept : x[1] = c}} |->
                          [quantity |-> sel[CHOOSE x \in kept : x[1] = c /\ x[2] = n]]]]],
       specialtyOnly |-> {l[1] : l \in kept} = {"Specialty"}]

\* the orders collection holds up to MaxOrders orders of that catalog, and
\* the Audit page of one browser is mounted and waits for its snapshot
InitAudit ==
  /\ form = initialValues
  /\ total = 0
  /\ modal = << >>
  /\ errors = {}
  /\ itemPriceMap = PriceMapOf(menu)
  /\ \E n \in 0..MaxOrders :
       \E sels \in [1..n -> AuditSelections] :
         orders = [k \in 1..n |-> AuditOrder(sels[k]) @@ [timestamp |-> k]]
  /\ specialty = << >>
  /\ clock = Len(orders)
  /\ inflight = EmptyBag
  /\ tab = [op \in Operators |-> IF op = "op1" THEN "allOrders" ELSE "cashier"]
  /\ list = [op \in Operators |-> << >>]
  /\ subscriptions = [op \in Operators |-> Subscribe(tab[op])]
  /\ loading = [op \in Operators |-> TRUE]
  /\ analytics = [op \in Operators |-> << >>]
  /\ notifications = [op \in Operators |-> << >>]
  /\ lapsed = {}
  /\ rejected = {}
  /\ overlapped = {}

\* the onSnapshot callback of AllOrdersPage, mounted with that catalog
AuditSnapshot(op) ==
  /\ tab[op] = "allOrders"
  /\ subscriptions[op]["allOrders"]
  /\ subscriptions' = [subscriptions EXCEPT ![op]["allOrders"] = FALSE]
  /\ list' = [list EXCEPT ![op] = AllOrdersQuery]
  /\ analytics' = [analytics EXCEPT ![op] = Aggregate(AuditMenu, Docs(AllOrdersQuery))]
  /\ loading' = [loading EXCEPT ![op] = FALSE]
  /\ UNCHANGED <<cashierVars, storeVars, inflight, tab, notifications, historyVars>>

AuditNext == AuditSnapshot("op1")

SpecAudit == InitAudit /\ [][AuditNext]_vars

\* the quantities sold, one per order, category and item
SoldLines ==
  UNION {UNION {{<<k, c, n>> : n \in DOMAIN orders[k].categories[c].items} :
                  c \in DOMAIN orders[k].categories} : k \in DOMAIN orders}

RECURSIVE SumQuantities(_)
SumQuantities(lines) ==
  IF lines = {} THEN 0
  ELSE LET l == CHOOSE x \in lines : TRUE
       IN  orders[l[1]].categories[l[2]].items[l[3]].quantity
             + SumQuantities(lines \ {l})

RECURSIVE SumPrices(_)
SumPrices(ids) ==
  IF ids = {} THEN 0
  ELSE LET k == CHOOSE x \in ids : TRUE IN orders[k].price + SumPrices(ids \ {k})

\* C17: after the snapshot delivered to the Audit view, over a catalog
\* whose item names are unique within their category only, Total Orders is
\* the number of Orders, Total Items the sum of all quantities, Total
\* Revenue the sum of the prices, and the entry of each catalog item the sum
\* of that item's quantities over all Orders, 0 for an item never sold.
C17_AggregateOfSnapshot ==
  \A op \in Operators :
    tab[op] = "allOrders" /\ ~loading[op] =>
      /\ analytics[op]["Total Orders"] = Len(orders)
      /\ analytics[op]["Total Items"] = SumQuantities(SoldLines)
      /\ analytics[op]["Total Revenue"] = SumPrices(DOMAIN orders)
      /\ \A l \in AuditLines :
            analytics[op][l[2]] =
              SumQuantities({s \in SoldLines : s[2] = l[1] /\ s[3] = l[2]})

(***************************************************************************)
(* The order of the views' lists.                                          *)
(***************************************************************************)
\* several orders, with one browser on the Servers page completing and
\* undoing, and another browser looking at the Servers, Audit and Specialty
\* pages
SortedNext ==
  \/ \E formValues \in SampleForms : OrderConfirmed(formValues, MaxOrders)
  \/ StoreNext
  \/ \E op \in Operators : SnapshotDelivered(op)
  \/ TabChanged("op1", "server")
  \/ \E t \in {"server", "allOrders", "specialty"} : TabChanged("op2", t)
  \/ \E i \in OrderIds : completeOrder("op1", i)
  \/ \E i \in OrderIds : undoOrder("op1", i)
  \/ \E nid \in NotificationIds : NotificationClosed("op1", nid)

SpecSorted == Init /\ [][SortedNext]_vars

\* the creation timestamp of the document with id i that page t lists
TimestampOf(t, i) ==
  IF t = "specialty" THEN specialty[i].timestamp ELSE orders[i].timestamp

\* the two pages list documents of the same collection
SameCollection(t, u) == (t = "specialty") <=> (u = "specialty")

Position(l, i) == CHOOSE k \in DOMAIN l : l[k] = i

\* two lists show the documents they share in the same relative order
Agree(l, m) ==
  \A a, b \in Range(l) \cap Range(m) :
    Position(l, a) < Position(l, b) <=> Position(m, a) < Position(m, b)

\* C16: in every state each view's list is in ascending order of the
\* creation timestamps of the documents it lists; two views of the same
\* collection show the documents they share in the same relative order,
\* in one state and from one state to the next; and no step changes the
\* timestamp of a stored document, so that an Order whose completion is
\* undone comes back at the position its timestamp gives it.
C16_ListsInCreationOrder ==
  /\ [](\A op \in Operators : \A j, k \in DOMAIN list[op] :
          j < k => TimestampOf(tab[op], list[op][j]) < TimestampOf(tab[op], list[op][k]))
  /\ [](\A op, oq \in Operators :
          SameCollection(tab[op], tab[oq]) => Agree(list[op], list[oq]))
  /\ [][\A op, oq \in Operators :
          SameCollection(tab[op], tab'[oq]) => Agree(list[op], list'[oq])]_vars
  /\ [][/\ \A i \in DOMAIN orders : orders'[i].timestamp = orders[i].timestamp
        /\ \A i \in DOMAIN specialty : specialty'[i].timestamp = specialty[i].timestamp
       ]_vars

\* the first of two orders was completed (the other browser's Servers page
\* still lists the second order alone) and its completion undone: it is
\* back on the first browser's Servers page, before the second order
C16_Witness ==
  /\ tab["op1"] = "server" /\ tab["op2"] = "server"
  /\ list["op1"] = <<1, 2>>
  /\ list["op2"] = <<2>>
  /\ ~subscriptions["op2"]["server"]
  /\ ~orders[1].completed /\ ~orders[1].specialtyOnly
  /\ NotificationId(1, "") \notin DOMAIN notifications["op1"]

(***************************************************************************)
(* Properties of the completions and their undo affordances.               *)
(***************************************************************************)
\* the requests of the Servers page
ServerKinds == {"completeOrder", "undoOrder"}

\* C22: a step that settles a write of a Server-view complete or undo
\* leaves every category (its done and its items) of every Order, every
\* other field but completed and every Specialty record unchanged, so the
\* result of the Specialty view's query is unchanged; and completed changes
\* only in such a step, to the value the request carries, never as a
\* consequence of the categories' flags.
C22_ServerCompleteWritesCompletedOnly ==
  [][/\ CountKinds(ServerKinds)' < CountKinds(ServerKinds) =>
          /\ \A i \in DOMAIN orders :
                \A f \in DOMAIN orders[i] \ {"completed"} : orders'[i][f] = orders[i][f]
          /\ DOMAIN orders' = DOMAIN orders
          /\ specialty' = specialty
          /\ SpecialtyQuery' = SpecialtyQuery
     /\ \A i \in DOMAIN orders :
          orders'[i].completed # orders[i].completed =>
            \E r \in Inflight :
              /\ r.kind \in ServerKinds /\ r.id = i
              /\ CopiesIn(r, inflight') = CopiesIn(r, inflight) - 1
              /\ orders'[i].completed = (r.kind = "completeOrder")
    ]_vars

\* the order with a Specialty category has been completed on the Servers
\* page with no category done, and its record is still on the Specialty page
C22_Witness ==
  /\ 1 \in DOMAIN specialty
  /\ orders[1].completed
  /\ \A c \in DOMAIN orders[1].categories : ~orders[1].categories[c].done
  /\ ~specialty[1].done
  /\ tab["op1"] = "specialty" /\ list["op1"] = <<1>>
  /\ inflight = EmptyBag

\* the requests of the Specialty page
SpecialtyKinds == {"completeSpecialtyOrder", "undoSpecialtyOrder"}

\* the requests in flight that still have a write of categories.Specialty.done
SpecialtyDoneWriters ==
  {r \in Inflight : r.kind \in UpdateKinds /\
     \E w \in r.todo : w.collection = "orders" /\ w.field = <<"categories", "Specialty", "done">>}

\* the done of the Specialty category of an Order, FALSE for an Order
\* without that category
SpecialtyDoneOf(order) ==
  "Specialty" \in DOMAIN order.categories /\ order.categories["Specialty"].done

\* C28: every request with a write of an Order's categories.Specialty.done
\* is a complete or an undo of the Specialty view, for an Order that has a
\* "Specialty" category, so none is a toggle of the Kitchen view; and that
\* flag of a stored Order changes only in a step that settles a write of
\* such a request.
C28_SpecialtyDoneWrittenBySpecialtyViewOnly ==
  /\ [](\A r \in SpecialtyDoneWriters : r.kind \in SpecialtyKinds /\ HasSpecialty(r.id))
  /\ [][\A i \in DOMAIN orders :
          SpecialtyDoneOf(orders'[i]) # SpecialtyDoneOf(orders[i]) =>
            \E r \in SpecialtyDoneWriters :
              /\ r.kind \in SpecialtyKinds /\ r.id = i
              /\ CopiesIn(r, inflight') = CopiesIn(r, inflight) - 1]_vars

\* the Kitchen toggle of Food has landed on the order whose Specialty
\* category was completed from the Specialty page
C28_Witness ==
  /\ HasSpecialty(1)
  /\ orders[1].categories["Specialty"].done
  /\ "Food" \in DOMAIN orders[1].categories /\ orders[1].categories["Food"].done
  /\ specialty[1].done

\* the requests in flight that still have a write of an Order's completed
CompletedWriters ==
  {r \in Inflight : r.kind \in UpdateKinds /\
     \E w \in r.todo : w.collection = "orders" /\ w.field = <<"completed">>}

\* C29: in every reachable state an Order with specialtyOnly = TRUE has
\* completed = FALSE, is not in the result of the Server view's query, and
\* has no write of its completed field in flight, whatever was completed
\* from the Specialty view.
C29_SpecialtyOnlyNeverCompleted ==
  \A i \in DOMAIN orders :
    orders[i].specialtyOnly =>
      /\ ~orders[i].completed
      /\ i \notin Range(ActiveOrdersQuery)
      /\ \A r \in CompletedWriters : r.id # i
      /\ \A op \in Operators : tab[op] = "server" => i \notin Range(list[op])

\* the Specialty record of a specialtyOnly Order has been completed from the
\* Specialty page, both flags written
C29_Witness ==
  /\ 1 \in DOMAIN specialty
  /\ orders[1].specialtyOnly
  /\ specialty[1].done /\ orders[1].categories["Specialty"].done
  /\ NotificationId(1, "specialty") \in DOMAIN notifications["op1"]
  /\ inflight = EmptyBag

(***************************************************************************)
(* Properties of failed submissions.                                       *)
(***************************************************************************)
\* C25: a step in which an Order create ends without an Order being stored,
\* or a Specialty create ends without a record being stored, leaves both
\* collections unchanged and issues no request; and once the Specialty
\* create of an Order was rejected, the Order is stored, it has no record,
\* and no create for it is in flight: nothing is retried or rolled back.
C25_FailedCreateNotCompensated ==
  /\ [][(\/ PendingOrders' < PendingOrders /\ DOMAIN orders' = DOMAIN orders
         \/ CountKinds({"setDoc"})' < CountKinds({"setDoc"})
              /\ DOMAIN specialty' = DOMAIN specialty) =>
          /\ UNCHANGED <<orders, specialty>>
          /\ BagCardinality(inflight') = BagCardinality(inflight) - 1
          /\ \A r \in BagToSet(inflight') : CopiesIn(r, inflight') <= CopiesIn(r, inflight)
       ]_vars
  /\ [](\A i \in OrderIds :
          <<"create", i>> \in rejected =>
            /\ HasSpecialty(i)
            /\ i \notin DOMAIN specialty
            /\ SetDocsInFlight(i) = 0)
  /\ [][\A i \in OrderIds :
          <<"create", i>> \in rejected =>
            /\ <<"create", i>> \in rejected'
            /\ \A f \in DOMAIN orders[i] \ {"completed", "categories"} :
                  orders'[i][f] = orders[i][f]]_vars

\* the Specialty create of the first order was rejected: the order is
\* stored without a record, and a second order has been stored since
C25_Witness ==
  /\ <<"create", 1>> \in rejected
  /\ HasSpecialty(1) /\ 1 \notin DOMAIN specialty
  /\ 2 \in DOMAIN orders
  /\ inflight = EmptyBag

\* the field a write sets has the write's value in document i
Written(w, i) ==
  IF w.collection = "specialty" THEN specialty[i].done = w.value
  ELSE IF Len(w.field) = 1 THEN orders[i].completed = w.value
  ELSE orders[i].categories[w.field[2]].done = w.value

\* the handler whose continuation shows the notification with that suffix
CompleteKind(suffix) ==
  IF suffix = "" THEN "completeOrder" ELSE "completeSpecialtyOrder"

\* C24: a step in which an undo affordance for X appears in a browser
\* settles the last outstanding write of a completion of X issued by that
\* browser (the completed = true write for the Order-level affordance, the
\* second of the two done writes for the Specialty-level one), none of the
\* request's writes was rejected, and that last write is applied by the
\* step; so a completion with a rejected write emits no affordance, even
\* when its other write has landed.
C24_AffordanceOnlyOnSuccess ==
  [][\A op \in Operators, nid \in NotificationIds :
       nid \notin DOMAIN notifications[op] /\ nid \in DOMAIN notifications'[op] =>
         \E r \in Inflight :
           /\ r.kind = CompleteKind(nid[2]) /\ r.op = op /\ r.id = nid[1]
           /\ ~r.failed
           /\ Cardinality(r.todo) = 1
           /\ \A w \in r.todo : Written(w, nid[1])'
           /\ CopiesIn(r, inflight') = CopiesIn(r, inflight) - 1
           /\ BagCardinality(inflight') = BagCardinality(inflight) - 1
           /\ rejected' = rejected
    ]_vars

\* a Specialty completion has ended with the record's done written and the
\* write of the Order's flag rejected: no affordance is shown
C24_Witness ==
  /\ 1 \in DOMAIN specialty
  /\ specialty[1].done /\ ~orders[1].categories["Specialty"].done
  /\ <<"done", 1>> \in rejected
  /\ notifications["op1"] = << >>
  /\ inflight = EmptyBag

\* the entry of a notification in a browser: not shown, or shown with
\* whether its Undo was pressed
Entry(shown, nid) == IF nid \in DOMAIN shown THEN <<shown[nid]>> ELSE << >>

\* C27: while an Order has both its Order-level and its Specialty-level
\* affordance open in a browser, a step that changes one of them (Undo
\* pressed, withdrawn after the undo, or expired) leaves the other as it
\* is; every Order-level undo carries a write of completed only, every
\* Specialty-level undo writes of the record's done and of the Order's
\* categories.Specialty.done only; and pressing one Undo issues no undo of
\* the other kind.
C27_AffordancesAreDistinct ==
  /\ [](\A r \in Inflight :
          /\ r.kind = "undoOrder" =>
               \A w \in r.todo : w.collection = "orders" /\ w.field = <<"completed">>
          /\ r.kind = "undoSpecialtyOrder" =>
               \A w \in r.todo :
                 \/ w.collection = "specialty" /\ w.field = <<"done">>
                 \/ w.collection = "orders"
                      /\ w.field = <<"categories", "Specialty", "done">>)
  /\ [][\A op \in Operators, i \in OrderIds :
          LET a == <<i, "">>
              b == <<i, "specialty">>
          IN  a \in DOMAIN notifications[op] /\ b \in DOMAIN notifications[op] =>
                /\ Entry(notifications'[op], a) # Entry(notifications[op], a) =>
                     /\ Entry(notifications'[op], b) = Entry(notifications[op], b)
                     /\ CountKinds({"undoSpecialtyOrder"})' <= CountKinds({"undoSpecialtyOrder"})
                /\ Entry(notifications'[op], b) # Entry(notifications[op], b) =>
                     /\ Entry(notifications'[op], a) = Entry(notifications[op], a)
                     /\ CountKinds({"undoOrder"})' <= CountKinds({"undoOrder"})
       ]_vars

\* both affordances of the order are open, the Undo of the Order-level one
\* has been pressed and its write is in flight, the Specialty-level one is
\* untouched
C27_Witness ==
  /\ <<1, "">> \in DOMAIN notifications["op1"] /\ notifications["op1"][<<1, "">>]
  /\ <<1, "specialty">> \in DOMAIN notifications["op1"]
  /\ ~notifications["op1"][<<1, "specialty">>]
  /\ CountKinds({"undoOrder"}) = 1 /\ CountKinds({"undoSpecialtyOrder"}) = 0
  /\ specialty[1].done /\ orders[1].completed

\* C23: the step that lands the last write of an undo of a Specialty
\* completion, when no write of a complete or undo of that record was
\* rejected and none was issued while another one of the record still had a
\* write in flight, leaves the record's done and the parent Order's
\* categories.Specialty.done both FALSE and the record in the result of the
\* Specialty view's query.
C23_UndoRestoresBothFlags ==
  [][\A i \in DOMAIN specialty :
       (/\ \E r \in Inflight :
             /\ r.kind = "undoSpecialtyOrder" /\ r.id = i
             /\ Cardinality(r.todo) = 1
             /\ CopiesIn(r, inflight') = CopiesIn(r, inflight) - 1
        /\ BagCardinality(inflight') = BagCardinality(inflight) - 1
        /\ <<"done", i>> \notin rejected'
        /\ i \notin overlapped) =>
         /\ ~specialty'[i].done
         /\ ~orders'[i].categories["Specialty"].done
         /\ i \in Range(SpecialtyQuery')
    ]_vars

\* the record was completed by both browsers in turn and the first
\* browser's undo has landed: both flags are FALSE and the record is again
\* in the list of the first browser's Specialty page
C23_Witness ==
  /\ 1 \in DOMAIN specialty
  /\ ~specialty[1].done /\ ~orders[1].categories["Specialty"].done
  /\ NotificationId(1, "specialty") \in DOMAIN notifications["op2"]
  /\ NotificationId(1, "specialty") \notin DOMAIN notifications["op1"]
  /\ tab["op1"] = "specialty" /\ list["op1"] = <<1>>
  /\ SpecialtyQuery = <<1>>
  /\ overlapped = {} /\ rejected = {} /\ inflight = EmptyBag

(***************************************************************************)
(* The catalog changing under the Order Builder.                           *)
(***************************************************************************)
\* the menu listener of App: setMenu with the new catalog; CashierPage
\* renders again and computes itemPriceMap from it, while the form values
\* and the total state are left as they were
MenuSnapshot(m) ==
  /\ PriceMapOf(m) # itemPriceMap
  /\ itemPriceMap' = PriceMapOf(m)
  /\ UNCHANGED <<form, total, modal, errors, storeVars, inflight, viewVars,
                 notifications, historyVars>>

\* the Order Builder while the catalog is being edited, up to the submission
\* of an order
PriceNext ==
  \/ \E m \in Range(menu), q \in 0..MaxQty : \E it \in Range(m.items) :
       ChangeQuantity(m.categoryName, it.itemName, q)
  \/ \E d \in 0..MaxDiscount : ChangeDiscount(d)
  \/ \E n \in Numbers : ChangeNumber(n)
  \/ onSubmitInvalid
  \/ handleSubmit
  \/ onCancel
  \/ onConfirm
  \/ \E m \in Menus : MenuSnapshot(m)

SpecPrice == Init /\ [][PriceNext]_vars

(***************************************************************************)
(* Properties of the price of an Order.                                    *)
(***************************************************************************)
\* the sum, over the items an Order holds, of quantity x price
RECURSIVE OrderLineSum(_, _, _)
OrderLineSum(order, prices, lines) ==
  IF lines = {} THEN 0
  ELSE LET l == CHOOSE x \in lines : TRUE
           quantity ==
             IF l[1] \in DOMAIN order.categories
                  /\ l[2] \in DOMAIN order.categories[l[1]].items
               THEN order.categories[l[1]].items[l[2]].quantity
               ELSE 0
       IN  quantity * prices[l[1]][l[2]] + OrderLineSum(order, prices, lines \ {l})

\* the <<category, item>> pairs of the catalog
PriceLines ==
  UNION {{<<c, i>> : i \in DOMAIN InitialItems[c]} : c \in DOMAIN InitialItems}

\* C30: the Order a confirmation submits has for price the sum, over the
\* items in its own categories, of quantity x the catalog price in effect
\* when it is confirmed, minus its own discount, whatever form edits,
\* cancelled submits and confirmed submits came before.
C30_PriceIsSumOfOwnItemsMinusDiscount ==
  [][modal # << >> /\ PendingOrders' > PendingOrders =>
       modal[1].price =
         OrderLineSum(modal[1], itemPriceMap, PriceLines) - modal[1].discount]_vars

(***************************************************************************)
(* Liveness of the store and of the listeners.                             *)
(*                                                                         *)
(* The store settles every request it was sent (it is applied or it is     *)
(* rejected), and a listener whose query result changed is called with the *)
(* new result.                                                             *)
(***************************************************************************)
CreateSettled ==
  \E r \in Inflight : AddDocApplied(r) \/ SetDocApplied(r) \/ CreateFailed(r)

UpdateSettled ==
  \E r \in Inflight, w \in AllWrites : UpdateApplied(r, w) \/ UpdateFailed(r, w)

\* a kitchen browser (op1) and a browser on the server and specialty pages
\* (op2), with the one order a cashier confirms
LiveNext ==
  \/ \E formValues \in SampleForms : OrderConfirmed(formValues, MaxSharedOrders)
  \/ StoreNext
  \/ \E op \in Operators : SnapshotDelivered(op)
  \/ TabChanged("op1", "activeOrders")
  \/ \E t \in {"server", "specialty"} : TabChanged("op2", t)
  \/ \E i \in OrderIds, m \in Range(menu), v \in BOOLEAN :
       i \in DOMAIN orders /\ checkCategory("op1", i, m.categoryName, v)
  \/ \E i \in OrderIds : completeOrder("op2", i)
  \/ \E i \in OrderIds : completeSpecialtyOrder("op2", i)

Fairness ==
  /\ WF_vars(CreateSettled)
  /\ WF_vars(UpdateSettled)
  /\ \A op \in Operators : WF_vars(SnapshotDelivered(op))

SpecLive == Init /\ [][LiveNext]_vars /\ Fairness

(***************************************************************************)
(* Properties of the eventual state of the store and of the views.         *)
(***************************************************************************)
\* the store applying a request, when no write fails
CreateApplied == \E r \in Inflight : AddDocApplied(r) \/ SetDocApplied(r)

UpdateAppliedOf == \E r \in Inflight, w \in AllWrites : UpdateApplied(r, w)

\* two browsers on the Specialty page, one of them leaving it and coming
\* back, and the one order a cashier confirms, with a store that rejects
\* nothing
PersistNext ==
  \/ \E formValues \in SampleForms : OrderConfirmed(formValues, MaxSharedOrders)
  \/ \E r \in Inflight : AddDocApplied(r)
  \/ \E r \in Inflight : SetDocApplied(r)
  \/ \E r \in Inflight, w \in AllWrites : UpdateApplied(r, w)
  \/ \E op \in Operators : SnapshotDelivered(op)
  \/ \E t \in {"cashier", "specialty"} : TabChanged("op1", t)
  \/ TabChanged("op2", "specialty")
  \/ \E op \in Operators, i \in OrderIds : completeSpecialtyOrder(op, i)
  \/ \E i \in OrderIds : undoSpecialtyOrder("op1", i)
  \/ \E nid \in NotificationIds : NotificationClosed("op1", nid)

PersistFairness ==
  /\ WF_vars(CreateApplied)
  /\ WF_vars(UpdateAppliedOf)
  /\ \A op \in Operators : WF_vars(SnapshotDelivered(op))

SpecPersist == Init /\ [][PersistNext]_vars /\ PersistFairness

\* C21: under fairness and with no store write failing, every confirmed
\* Order is eventually stored, every stored Order with a "Specialty"
\* category eventually has its Specialty record in the store, and a record
\* whose done is false eventually appears in the Specialty view that is
\* mounted, as long as it stays mounted and the record stays not done.
C21_SpecialtyRecordEventuallyShown ==
  /\ \A n \in 1..MaxSharedOrders :
       (Cardinality(DOMAIN orders) + PendingOrders = n) ~> (Len(orders) >= n)
  /\ \A i \in 1..MaxSharedOrders :
       HasSpecialty(i) ~> (i \in DOMAIN specialty)
  /\ \A op \in Operators, i \in 1..MaxSharedOrders :
       (tab[op] = "specialty" /\ i \in DOMAIN specialty /\ ~specialty[i].done)
         ~> \/ i \in Range(list[op])
            \/ tab[op] # "specialty"
            \/ (i \in DOMAIN specialty /\ specialty[i].done)

\* the record of a stored Order with a "Specialty" category is in the store,
\* not done, and listed by the Specialty view of the second browser
C21_Witness ==
  /\ HasSpecialty(1)
  /\ 1 \in DOMAIN specialty /\ ~specialty[1].done
  /\ tab["op2"] = "specialty" /\ 1 \in Range(list["op2"])
  /\ inflight = EmptyBag

\* a step in which a handler sends the store a request
WriteIssued == BagCardinality(inflight') > BagCardinality(inflight)

\* C26: under fairness, if from some point on no more writes are issued,
\* then the list of every view that stays mounted eventually equals, and
\* goes on equalling, its query evaluated on the store once every request
\* is settled; so a Kitchen view and a Server view that stay mounted
\* eventually show the same set of Orders.
C26_ViewsEventuallyAgreeWithStore ==
  /\ \A op \in Operators, t \in Tabs :
       (<>[][~WriteIssued]_vars /\ <>[](tab[op] = t))
         => <>[](inflight = EmptyBag /\ list[op] = QueryOf(t))
  /\ (<>[][~WriteIssued]_vars
        /\ <>[](tab["op1"] = "activeOrders" /\ tab["op2"] = "server"))
       => <>[](Range(list["op1"]) = Range(list["op2"]))

\* the transient disagreement: the Kitchen view and the Server view are
\* mounted, each was called with a result, no request is outstanding, and
\* the Server view lists an Order the Kitchen view does not list yet
C26_Witness ==
  /\ tab["op1"] = "activeOrders" /\ tab["op2"] = "server"
  /\ ~subscriptions["op1"]["activeOrders"] /\ ~subscriptions["op2"]["server"]
  /\ inflight = EmptyBag
  /\ 1 \in Range(list["op2"]) /\ 1 \notin Range(list["op1"])

=============================================================================
